---------------------------- MODULE Spec2Model ----------------------------
(***************************************************************************)
(* rhabits (src/src/main.rs): a command-line habit tracker.  Every         *)
(* invocation loads the whole habit list, runs one command and (for the    *)
(* mutating commands) rewrites the whole list.                             *)
(*                                                                         *)
(* A history entry is a String in the fixed-width form YYYY-MM-DD.  It is  *)
(* modelled as the triple <<y, m, d>> of its three zero-padded fields, so  *)
(* that the byte-wise String order used by Vec::sort is the lexicographic  *)
(* order of the triple.  A chrono NaiveDate is modelled as the number of   *)
(* days since 1970-01-01; parse_from_str and to_string convert between the *)
(* two and parse_from_str fails on a triple that is no calendar day.       *)
(*                                                                         *)
(* habits is the content of habits.json.  One invocation is one step: it   *)
(* runs the command from load_data to save_data and leaves in cli the      *)
(* command it was given and in loaded the habits it had read; Exit ends    *)
(* the process.  The tool is written for a single process, so an           *)
(* invocation starts only when none is running.                            *)
(***************************************************************************)
EXTENDS Integers, Sequences, FiniteSets, TLC

VARIABLES habits, today, cli, loaded, width, screen

vars == <<habits, today, cli, loaded, width, screen>>

(***************************************************************************)
(* Bounds of the model.                                                    *)
(***************************************************************************)
\* habits the store may hold
MaxHabits == 2
\* date arguments of one mark / unmark command
MaxDates == 2
\* consecutive calendar days, from FirstDate on, the clock and the date
\* arguments range over
NumDays == 3

\* marks, over all habits, in a store handed to the graph command
MaxMarks == 2
\* names of one graph command
MaxNames == 2
\* widest terminal
MaxWidth == 4
\* consecutive calendar days, from FirstDate on, the marks handed to the
\* graph command range over
GraphDays == 21

FirstDate == <<2024, 1, 1>>
\* a string of the right shape that is no calendar day
BadDate == <<2024, 2, 30>>
Names == {"a", "b"}

(***************************************************************************)
(* Generic helpers.                                                        *)
(***************************************************************************)
Range(s) == {s[i] : i \in 1..Len(s)}

SeqsUpTo(S, n) == UNION {[1..k -> S] : k \in 0..n}

\* Rust integer division truncates toward zero
TruncDiv(a, b) == IF a >= 0 THEN a \div b ELSE -((-a) \div b)

(***************************************************************************)
(* chrono                                                                  *)
(***************************************************************************)
IsLeap(y) == (y % 4 = 0 /\ y % 100 # 0) \/ y % 400 = 0

DaysInMonth(y, m) ==
    IF m = 2 THEN (IF IsLeap(y) THEN 29 ELSE 28)
    ELSE IF m \in {4, 6, 9, 11} THEN 30 ELSE 31

\* NaiveDate::parse_from_str(s, "%Y-%m-%d") is Ok
ParseOk(s) ==
    /\ s[2] \in 1..12
    /\ s[3] >= 1
    /\ s[3] <= DaysInMonth(s[1], s[2])

\* NaiveDate::parse_from_str(s, "%Y-%m-%d").unwrap(): days since 1970-01-01
parse_from_str(s) ==
    LET y   == IF s[2] <= 2 THEN s[1] - 1 ELSE s[1]
        era == y \div 400
        yoe == y - era * 400
        mp  == IF s[2] > 2 THEN s[2] - 3 ELSE s[2] + 9
        doy == (153 * mp + 2) \div 5 + s[3] - 1
        doe == yoe * 365 + yoe \div 4 - yoe \div 100 + doy
    IN  era * 146097 + doe - 719468

\* NaiveDate::to_string(): the YYYY-MM-DD form of a day number
to_string(n) ==
    LET z   == n + 719468
        era == z \div 146097
        doe == z - era * 146097
        yoe == (doe - doe \div 1460 + doe \div 36524 - doe \div 146096) \div 365
        doy == doe - (365 * yoe + yoe \div 4 - yoe \div 100)
        mp  == (5 * doy + 2) \div 153
        d   == doy - (153 * mp + 2) \div 5 + 1
        m   == IF mp < 10 THEN mp + 3 ELSE mp - 9
        y   == yoe + era * 400 + (IF m <= 2 THEN 1 ELSE 0)
    IN  <<y, m, d>>

\* Datelike::weekday().number_from_monday(): Monday = 1 .. Sunday = 7
number_from_monday(n) == ((n + 3) % 7) + 1

(***************************************************************************)
(* String order and Vec<String> helpers                                    *)
(***************************************************************************)
\* a < b as Strings of the fixed-width form
StrLess(a, b) ==
    \/ a[1] < b[1]
    \/ a[1] = b[1] /\ a[2] < b[2]
    \/ a[1] = b[1] /\ a[2] = b[2] /\ a[3] < b[3]

RECURSIVE Insert(_, _)
Insert(v, x) ==
    IF v = <<>> THEN <<x>>
    ELSE IF StrLess(x, Head(v)) THEN <<x>> \o v
    ELSE <<Head(v)>> \o Insert(Tail(v), x)

RECURSIVE SortedFrom(_, _)
SortedFrom(acc, v) ==
    IF v = <<>> THEN acc ELSE SortedFrom(Insert(acc, Head(v)), Tail(v))

\* the mutated sort: leaves the vector as it is
sort_skipped(v) == v

\* Vec::sort() on a Vec<String>
sort(v) == SortedFrom(<<>>, v)

RECURSIVE UniqueFrom(_, _, _)
UniqueFrom(acc, seen, v) ==
    IF v = <<>> THEN acc
    ELSE IF Head(v) \in seen THEN UniqueFrom(acc, seen, Tail(v))
    ELSE UniqueFrom(Append(acc, Head(v)), seen \cup {Head(v)}, Tail(v))

\* keeps the first occurrence of every item, in order
unique_preserve_order(v) == UniqueFrom(<<>>, {}, v)

(***************************************************************************)
(* The habit list                                                          *)
(***************************************************************************)
\* struct Habit
Habit(name, streak, history) ==
    [name |-> name, streak |-> streak, history |-> history]

\* habits.iter().find(|h| h.name == name): index of the first match, 0 if none
find(hs, name) ==
    IF \E i \in 1..Len(hs) : hs[i].name = name
    THEN CHOOSE i \in 1..Len(hs) :
            /\ hs[i].name = name
            /\ \A j \in 1..(i - 1) : hs[j].name # name
    ELSE 0

\* the scan with the commented-out break restored: stops at the first entry
\* that does not continue the run
RECURSIVE streak_scan_break(_, _, _, _)
streak_scan_break(history, i, previous_date, streak) ==
    IF i = 0 THEN streak
    ELSE LET date == parse_from_str(history[i])
         IN  IF previous_date - date = 1
             THEN streak_scan_break(history, i - 1, date, streak + 1)
             ELSE streak

\* the scan with >= in place of ==: any older entry continues the run
RECURSIVE streak_scan_ge(_, _, _, _)
streak_scan_ge(history, i, previous_date, streak) ==
    IF i = 0 THEN streak
    ELSE LET date == parse_from_str(history[i])
         IN  IF previous_date - date >= 1
             THEN streak_scan_ge(history, i - 1, date, streak + 1)
             ELSE streak_scan_ge(history, i - 1, previous_date, streak)

\* the loop of check_streak over history.iter().rev(), entry i downwards
RECURSIVE streak_scan(_, _, _, _)
streak_scan(history, i, previous_date, streak) ==
    IF i = 0 THEN streak
    ELSE LET date == parse_from_str(history[i])
         IN  IF previous_date - date = 1
             THEN streak_scan(history, i - 1, date, streak + 1)
             ELSE streak_scan(history, i - 1, previous_date, streak)

\* check_streak reaches an entry whose parse_from_str(..).unwrap() panics
check_streak_panics(hs) ==
    \E i \in 1..Len(hs) : \E e \in Range(hs[i].history) : ~ParseOk(e)

\* check_streak(&mut habits) run on the day t
check_streak(hs, t) ==
    [i \in 1..Len(hs) |->
        LET history == unique_preserve_order(hs[i].history)
        IN  Habit(hs[i].name,
                  streak_scan(history, Len(history), t + 1, 0),
                  history)]

\* mark_habit panics: no dates given and the last entry does not parse
mark_habit_panics(hs, name, dates) ==
    LET i == find(hs, name)
    IN  /\ i # 0
        /\ dates = <<>>
        /\ hs[i].history # <<>>
        /\ ~ParseOk(hs[i].history[Len(hs[i].history)])

\* mark_habit(&mut habits, name, dates) run on the day t
mark_habit(hs, name, dates, t) ==
    LET i == find(hs, name)
    IN  IF i = 0 THEN hs
        ELSE LET h == hs[i]
                 n == Len(h.history)
                 marked ==
                    IF dates = <<>>
                    THEN IF n > 0 /\ parse_from_str(h.history[n]) # t
                         THEN Habit(h.name, h.streak + 1,
                                    Append(h.history, to_string(t)))
                         ELSE h
                    ELSE Habit(h.name, h.streak, h.history \o dates)
             IN  [hs EXCEPT ![i] = Habit(marked.name, marked.streak,
                                         sort(marked.history))]

\* unmark_habit removing only the first of the given dates
unmark_habit_first(hs, name, dates, t) ==
    LET i == find(hs, name)
    IN  IF i = 0 THEN hs
        ELSE LET h == hs[i]
                 current_date_string == to_string(t)
                 KeepToday(x) == x # current_date_string
                 KeepDates(x) == x # dates[1]
                 kept == IF dates = <<>>
                         THEN SelectSeq(h.history, KeepToday)
                         ELSE SelectSeq(h.history, KeepDates)
             IN  [hs EXCEPT ![i] = Habit(h.name, h.streak, sort(kept))]

\* unmark_habit(&mut habits, name, dates) run on the day t
unmark_habit(hs, name, dates, t) ==
    LET i == find(hs, name)
    IN  IF i = 0 THEN hs
        ELSE LET h == hs[i]
                 current_date_string == to_string(t)
                 KeepToday(x) == x # current_date_string
                 KeepDates(x) == x \notin Range(dates)
                 kept == IF dates = <<>>
                         THEN SelectSeq(h.history, KeepToday)
                         ELSE SelectSeq(h.history, KeepDates)
             IN  [hs EXCEPT ![i] = Habit(h.name, h.streak, sort(kept))]

\* add_habit(&mut habits, name)
add_habit(hs, name) == Append(hs, Habit(name, 0, <<>>))

\* the retain with its test inverted: keeps only the named habit
remove_habit_inverted(hs, name) ==
    LET Keep(h) == h.name = name
    IN  SelectSeq(hs, Keep)

\* habits.retain(|h| h.name != *name) of Commands::Remove
remove_habit(hs, name) ==
    LET Keep(h) == h.name # name
    IN  SelectSeq(hs, Keep)

(***************************************************************************)
(* Inputs                                                                  *)
(***************************************************************************)
FirstDay == parse_from_str(FirstDate)
LastDay == FirstDay + NumDays - 1

\* the date strings a command line may carry
DateArgs == {to_string(n) : n \in FirstDay..LastDay}

\* the lists of dates of a mark or unmark command: any list of up to MaxDates
\* calendar days, or the one malformed date
DateLists == SeqsUpTo(DateArgs, MaxDates) \cup {<<BadDate>>}

Command(op, name, args, ok) ==
    [op |-> op, name |-> name, args |-> args, ok |-> ok]

\* no invocation is running
NoCommand == Command("none", "", <<>>, TRUE)

\* nothing drawn
NoScreen == {}

(***************************************************************************)
(* The commands of main(): load, run, save                                 *)
(***************************************************************************)
Init ==
    /\ habits = <<>>
    /\ today = FirstDay
    /\ cli = NoCommand
    /\ loaded = <<>>
    /\ width = MaxWidth
    /\ screen = NoScreen

\* Commands::List
List ==
    /\ cli = NoCommand
    /\ loaded' = habits
    /\ IF check_streak_panics(habits)
       THEN /\ habits' = habits
            /\ cli' = Command("list", "", <<>>, FALSE)
       ELSE /\ habits' = check_streak(habits, today)
            /\ cli' = Command("list", "", <<>>, TRUE)
    /\ UNCHANGED <<today, width, screen>>

\* Commands::Mark: mark_habit, check_streak, save_data; a panic ends the
\* process before save_data, so the file keeps the habits it held
run_mark(hs, name, dates, t) ==
    LET marked == mark_habit(hs, name, dates, t)
    IN  IF mark_habit_panics(hs, name, dates) \/ check_streak_panics(marked)
        THEN [habits |-> hs, ok |-> FALSE]
        ELSE [habits |-> check_streak(marked, t), ok |-> TRUE]

\* Commands::Unmark: unmark_habit, check_streak, save_data
run_unmark(hs, name, dates, t) ==
    LET unmarked == unmark_habit(hs, name, dates, t)
    IN  IF check_streak_panics(unmarked)
        THEN [habits |-> hs, ok |-> FALSE]
        ELSE [habits |-> check_streak(unmarked, t), ok |-> TRUE]

\* Commands::Mark { name, dates }
Mark(name, dates) ==
    /\ cli = NoCommand
    /\ loaded' = habits
    /\ LET r == run_mark(habits, name, dates, today)
       IN  /\ habits' = r.habits
           /\ cli' = Command("mark", name, dates, r.ok)
    /\ UNCHANGED <<today, width, screen>>

\* Commands::Unmark { name, dates }
Unmark(name, dates) ==
    /\ cli = NoCommand
    /\ loaded' = habits
    /\ LET r == run_unmark(habits, name, dates, today)
       IN  /\ habits' = r.habits
           /\ cli' = Command("unmark", name, dates, r.ok)
    /\ UNCHANGED <<today, width, screen>>

\* Commands::Add { name }
Add(name) ==
    /\ cli = NoCommand
    /\ Len(habits) < MaxHabits
    /\ loaded' = habits
    /\ habits' = add_habit(habits, name)
    /\ cli' = Command("add", name, <<>>, TRUE)
    /\ UNCHANGED <<today, width, screen>>

\* Commands::Remove { name }
Remove(name) ==
    /\ cli = NoCommand
    /\ loaded' = habits
    /\ habits' = remove_habit(habits, name)
    /\ cli' = Command("remove", name, <<>>, TRUE)
    /\ UNCHANGED <<today, width, screen>>

\* main returns (or the panic unwinds): the process and all it held are gone,
\* the file stays
Exit ==
    /\ cli # NoCommand
    /\ cli' = NoCommand
    /\ loaded' = <<>>
    /\ screen' = NoScreen
    /\ UNCHANGED <<habits, today, width>>

\* midnight passes between two invocations: Local::now() moves on one day
\* (every Local::now() of one invocation falls on the same day)
Tick ==
    /\ cli = NoCommand
    /\ today < LastDay
    /\ today' = today + 1
    /\ UNCHANGED <<habits, cli, loaded, width, screen>>

(***************************************************************************)
(* print_graph                                                             *)
(***************************************************************************)
\* the coloured mark of the entry date, shown at the column x of the row y
MarkCell(x, y, date, intensity) ==
    [x |-> x, y |-> y, date |-> date, intensity |-> intensity]

\* "Merge dates": the histories of the named habits, in the order of names
RECURSIVE merge(_, _)
merge(hs, names) ==
    IF names = <<>> THEN <<>>
    ELSE LET i == find(hs, Head(names))
         IN  (IF i = 0 THEN <<>> ELSE hs[i].history) \o merge(hs, Tail(names))

\* the denominator taken to be the number of names given
habit_count_names(hs, names) == Len(names)

\* habit_count: the names that found a habit
habit_count(hs, names) ==
    Cardinality({k \in 1..Len(names) : find(hs, names[k]) # 0})

\* "Count duplicates": the loop for i in 1..merged.len(), from i on, and the
\* two pushes after it
RECURSIVE count_duplicates(_, _, _, _, _, _)
count_duplicates(merged, i, previous, count, dates, counts) ==
    IF i > Len(merged)
    THEN [dates |-> Append(dates, previous), counts |-> Append(counts, count)]
    ELSE IF merged[i] = previous
         THEN count_duplicates(merged, i + 1, previous, count + 1, dates, counts)
         ELSE count_duplicates(merged, i + 1, merged[i], 1,
                               Append(dates, previous), Append(counts, count))

\* calc_x with one character cell per week column
calc_x_narrow(date, current_date, w) ==
    LET weekday == number_from_monday(date)
        difference == current_date - date
    IN  2 * TruncDiv(w, 2) - (TruncDiv(difference + weekday - 1, 7) + 1)

\* calc_x of the entry date (i32 arithmetic, / truncating toward zero)
calc_x(date, current_date, w) ==
    LET weekday == number_from_monday(date)
        difference == current_date - date
    IN  2 * TruncDiv(w, 2) - 2 * (TruncDiv(difference + weekday - 1, 7) + 1)

\* ((count as f32) / (habit_count as f32) * 255.0) as u8: the cast truncates
\* and saturates
intensity(count, n) ==
    LET v == (count * 255) \div n
    IN  IF v > 255 THEN 255 ELSE v

\* "Mark completed days": the loop for i in (0..=dates.len()-1).rev(), from
\* the entry i (counted from 1) downwards; the cells written, in order
RECURSIVE mark_completed(_, _, _, _, _, _, _)
mark_completed(dates, counts, i, n, current_date, w, written) ==
    IF i = 0 THEN written
    ELSE LET date == parse_from_str(dates[i])
             x == calc_x(date, current_date, w)
         IN  IF x < 0 THEN written
             ELSE mark_completed(dates, counts, i - 1, n, current_date, w,
                    Append(written,
                           MarkCell(x, number_from_monday(date) - 1, dates[i],
                                    intensity(counts[i], n))))

\* "Remove upcoming days": the two blanks written at the row y, from x on
blanked(x, y, current_date, w) ==
    /\ y \in number_from_monday(current_date)..7
    /\ x \in {2 * TruncDiv(w, 2) - 2, 2 * TruncDiv(w, 2) - 1}

\* what the terminal shows once print_graph has returned: the marks written
\* that no later write and no blank went over
drawn(written, current_date, w) ==
    {written[k] : k \in
        {k \in 1..Len(written) :
            /\ ~blanked(written[k].x, written[k].y, current_date, w)
            /\ \A j \in (k + 1)..Len(written) :
                  written[j].x # written[k].x \/ written[j].y # written[k].y}}

\* print_graph panics: merged[0] of an empty vector, or an entry that does
\* not parse
print_graph_panics(hs, names) ==
    \/ merge(hs, names) = <<>>
    \/ \E e \in Range(merge(hs, names)) : ~ParseOk(e)

\* print_graph(habits, names) on the day current_date in a terminal w wide
print_graph(hs, names, current_date, w) ==
    LET merged == sort(merge(hs, names))
        counted == count_duplicates(merged, 2, merged[1], 1, <<>>, <<>>)
        written == mark_completed(counted.dates, counted.counts,
                                  Len(counted.dates), habit_count(hs, names),
                                  current_date, w, <<>>)
    IN  drawn(written, current_date, w)

\* Commands::Graph { names }
Graph(names) ==
    /\ cli = NoCommand
    /\ loaded' = habits
    /\ IF print_graph_panics(habits, names)
       THEN /\ screen' = NoScreen
            /\ cli' = Command("graph", "", names, FALSE)
       ELSE /\ screen' = print_graph(habits, names, today, width)
            /\ cli' = Command("graph", "", names, TRUE)
    /\ UNCHANGED <<habits, today, width>>

(***************************************************************************)
(* Any sequence of invocations, from the empty list on                     *)
(***************************************************************************)
\* the names a graph command may carry; no habit is called "c"
GraphNames == Names \cup {"c"}

Next ==
    \/ List
    \/ \E names \in SeqsUpTo(GraphNames, MaxNames) : Graph(names)
    \/ \E name \in Names : \E dates \in DateLists : Mark(name, dates)
    \/ \E name \in Names : \E dates \in DateLists : Unmark(name, dates)
    \/ \E name \in Names : Add(name)
    \/ \E name \in Names : Remove(name)
    \/ Exit
    \/ Tick

Spec == Init /\ [][Next]_vars

(***************************************************************************)
(* The graph command over the stores of up to MaxMarks marks               *)
(***************************************************************************)
\* the days a mark of such a store may lie on: the week of FirstDate and
\* the weeks after it
GraphDates == {to_string(n) : n \in FirstDay..(FirstDay + GraphDays - 1)}

\* the current day: each day of the second week
GraphTodays == (FirstDay + 7)..(FirstDay + 13)

Widths == 3..MaxWidth

\* the ascending vector of the strings of S
RECURSIVE Ascending(_)
Ascending(S) ==
    IF S = {} THEN <<>>
    ELSE LET x == CHOOSE x \in S : \A z \in S : z = x \/ StrLess(x, z)
         IN  <<x>> \o Ascending(S \ {x})

\* the store of the habits a and b after the marks M, pairs <<name, date>>
StoreOf(M) ==
    <<Habit("a", 0, Ascending({m[2] : m \in {q \in M : q[1] = "a"}})),
      Habit("b", 0, Ascending({m[2] : m \in {q \in M : q[1] = "b"}}))>>

GraphStores ==
    {StoreOf(Range(s)) : s \in SeqsUpTo(Names \X GraphDates, MaxMarks)}

InitGraph ==
    /\ habits \in GraphStores
    /\ today \in GraphTodays
    /\ width \in Widths
    /\ cli = NoCommand
    /\ loaded = <<>>
    /\ screen = NoScreen

NextGraph ==
    \/ \E names \in SeqsUpTo(GraphNames, MaxNames) : Graph(names)
    \/ Exit

SpecGraph == InitGraph /\ [][NextGraph]_vars

(***************************************************************************)
(* Properties of the store commands (checked under Spec)                   *)
(***************************************************************************)
\* the last command ran check_streak to its end, on the current day
StreaksChecked == cli.op \in {"list", "mark", "unmark"} /\ cli.ok

IsAscendingUnique(h) == \A i \in 1..(Len(h) - 1) : StrLess(h[i], h[i + 1])

\* the number of consecutive calendar days, ending on the day t, that are all
\* entries of h
RunLength(h, t) ==
    LET InRun(k) == \A j \in 0..(k - 1) : to_string(t - j) \in Range(h)
    IN  CHOOSE k \in 0..Len(h) : InRun(k) /\ (k = Len(h) \/ ~InRun(k + 1))

Occurrences(h, x) == Cardinality({i \in 1..Len(h) : h[i] = x})

Jan01 == <<2024, 1, 1>>
Jan02 == <<2024, 1, 2>>
Jan03 == <<2024, 1, 3>>

\* C1: after every command the persisted history of every habit holds each
\* date at most once and is in ascending order.
C1_HistoryAscendingUnique ==
    \A i \in 1..Len(habits) : IsAscendingUnique(habits[i].history)

\* a mark that named one date twice, a date older than an entry already in
\* the history, has been carried out
C1_Witness ==
    /\ cli.op = "mark" /\ cli.ok
    /\ Len(cli.args) = 2 /\ cli.args[1] = cli.args[2]
    /\ LET i == find(loaded, cli.name)
       IN  /\ i # 0
           /\ \E e \in Range(loaded[i].history) : StrLess(cli.args[1], e)
           /\ Len(habits[i].history) = Len(loaded[i].history) + 1

\* C3: check_streak sets the streak of every habit to the length of the run
\* of consecutive calendar days that ends today and lies in its history
\* (0 when today is not in the history).
C3_StreakIsRunEndingToday ==
    StreaksChecked =>
        \A i \in 1..Len(habits) :
            habits[i].streak = RunLength(habits[i].history, today)

\* check_streak has computed the streak 3 for 2024-01-01..2024-01-03 on
\* 2024-01-03
C3_Witness ==
    /\ StreaksChecked
    /\ \E i \in 1..Len(habits) :
          /\ habits[i].history = <<Jan01, Jan02, Jan03>>
          /\ today = parse_from_str(Jan03)
          /\ habits[i].streak = 3

\* C4 as stated: on [2024-01-01, 2024-01-03] with today = 2024-01-03 the
\* entry 2024-01-01 is counted too, the streak being 2.
C4_Original ==
    StreaksChecked =>
        \A i \in 1..Len(habits) :
            (habits[i].history = <<Jan01, Jan03>> /\ today = parse_from_str(Jan03))
                => habits[i].streak = 2

\* C4 amended: on an ascending duplicate-free history an entry that is not
\* consecutive with the newer counted entries is not counted: the streak of
\* [2024-01-01, 2024-01-03] on 2024-01-03 is 1, and a history whose most
\* recent entry is older than yesterday has the streak 0.
C4_GapEndsTheRun ==
    StreaksChecked =>
        \A i \in 1..Len(habits) :
            LET h == habits[i].history
            IN  /\ (h = <<Jan01, Jan03>> /\ today = parse_from_str(Jan03))
                      => habits[i].streak = 1
                /\ (h # <<>> /\ parse_from_str(h[Len(h)]) < today - 1)
                      => habits[i].streak = 0

\* check_streak has run on 2024-01-03 over the history with the gap and over
\* a history whose only entry is two days old
C4_Witness ==
    /\ StreaksChecked
    /\ today = parse_from_str(Jan03)
    /\ \E i \in 1..Len(habits) : habits[i].history = <<Jan01, Jan03>>
    /\ \E i \in 1..Len(habits) : habits[i].history = <<Jan01>>

\* the invocation was a mark, unmark or remove whose name matched no habit
UnknownName ==
    /\ cli.op \in {"mark", "unmark", "remove"}
    /\ find(loaded, cli.name) = 0

\* C5 as stated: a mark, unmark or remove with a name that matches no habit
\* does not fail and leaves the whole persisted store as it was.
C5_Original ==
    UnknownName => (cli.ok /\ habits = loaded)

\* C5 amended: such a command does not fail and leaves every habit's name and
\* history and the order of the habits as they were; remove leaves the
\* streaks too, while mark and unmark set every streak to its value for the
\* current day.
C5_UnknownNameKeepsHistories ==
    UnknownName =>
        /\ cli.ok
        /\ Len(habits) = Len(loaded)
        /\ \A i \in 1..Len(loaded) :
              /\ habits[i].name = loaded[i].name
              /\ habits[i].history = loaded[i].history
              /\ habits[i].streak =
                    IF cli.op = "remove" THEN loaded[i].streak
                    ELSE RunLength(loaded[i].history, today)

\* a mark or unmark with an unknown name has run over a store holding a
\* streak computed on an earlier day
C5_Witness ==
    /\ UnknownName /\ cli.op \in {"mark", "unmark"}
    /\ \E i \in 1..Len(loaded) :
          /\ loaded[i].history # <<>>
          /\ loaded[i].streak # habits[i].streak

\* C9 as stated: no two habits of the persisted store have the same name.
C9_NamesUnique ==
    \A i, j \in 1..Len(habits) : i # j => habits[i].name # habits[j].name

\* the last command was a mark without dates of an existing habit
MarkedToday ==
    /\ cli.op = "mark" /\ cli.args = <<>>
    /\ find(loaded, cli.name) # 0

\* C2 as stated: when mark without dates has run and runs once more on the
\* same day, the history has exactly one entry for today and the streak is
\* one more than it was before the first mark.
C2_Original ==
    MarkedToday =>
        LET i == find(loaded, cli.name)
            second == run_mark(habits, cli.name, <<>>, today).habits
        IN  /\ Occurrences(second[i].history, to_string(today)) = 1
            /\ second[i].streak = loaded[i].streak + 1

\* the last command was a mark of an existing habit with explicit dates
MarkedDates ==
    /\ cli.op = "mark" /\ cli.args # <<>>
    /\ find(loaded, cli.name) # 0

GraphDrawn == cli.op = "graph" /\ cli.ok

\* the mark m lies in the grid: 7 rows, width / 2 columns of two characters
InGrid(m) == m.x \in 0..(2 * (width \div 2) - 1) /\ m.y \in 0..6

\* C6 as stated: once print_graph has returned, no cell of the grid shows
\* the mark of a date later than today.
C6_NoFutureMark ==
    GraphDrawn =>
        \A m \in screen : InGrid(m) => parse_from_str(m.date) <= today

\* the dates of the histories the names of the last graph command select
SelectedDates ==
    UNION {Range(habits[find(habits, cli.args[k])].history) :
              k \in {j \in 1..Len(cli.args) : find(habits, cli.args[j]) # 0}}

\* the Monday of the week of the day n
WeekStart(n) == n - ((n + 3) % 7)

\* the day n, not later than today, lies in one of the width / 2 weeks the
\* grid has a column for
InWindow(n) ==
    n <= today /\ (WeekStart(today) - WeekStart(n)) \div 7 < width \div 2

\* C7: when d, not later than today, and the day 7 days before d are both
\* selected and inside the visible window, the earlier one is drawn two
\* character cells to the left of d in the same row, the row of the ISO
\* weekday of d less one.
C7_WeekEarlierIsOneColumnLeft ==
    GraphDrawn =>
        \A d \in SelectedDates :
            LET n == parse_from_str(d)
                e == to_string(n - 7)
            IN  (e \in SelectedDates /\ InWindow(n) /\ InWindow(n - 7)) =>
                    \E m, l \in screen :
                        /\ InGrid(m) /\ InGrid(l)
                        /\ m.date = d /\ l.date = e
                        /\ m.y = number_from_monday(n) - 1
                        /\ l.y = m.y
                        /\ l.x = m.x - 2

\* a graph has been drawn of today and of the day 7 days before it, both in
\* the window
C7_Witness ==
    /\ GraphDrawn
    /\ to_string(today) \in SelectedDates
    /\ to_string(today - 7) \in SelectedDates
    /\ InWindow(today - 7)
    /\ \E m \in screen : InGrid(m) /\ m.date = to_string(today)

\* the positions of the last graph command's names that match a habit
Matched == {k \in 1..Len(cli.args) : find(habits, cli.args[k]) # 0}

\* those of them whose habit has the date d in its history
Completed(d) ==
    {k \in Matched : d \in Range(habits[find(habits, cli.args[k])].history)}

=============================================================================
